---- MODULE Spec2Model ----
(***************************************************************************)
(* Model of tinify-pics (src/main.rs): the batch driver `main`, the        *)
(* per-file pipeline `tinify` and the image transform                      *)
(* `convert_and_tinify`.                                                   *)
(*                                                                         *)
(* Paths, patterns and file names are sequences of one-character strings,  *)
(* so that str::replace, str::contains and str::ends_with are computed     *)
(* character by character as the standard library computes them.           *)
(* The filesystem is a function from the existing paths to what is there:  *)
(* "dir", "orig" (a file present before the tool ran) or "tiny" (a file    *)
(* written by Source::to_file).                                            *)
(***************************************************************************)
EXTENDS Integers, Sequences, FiniteSets, TLC

VARIABLES opts, fs, pc, todo, log, job, njobs, run, exits, pad

vars == <<opts, fs, pc, todo, log, job, njobs, run, exits, pad>>

----------------------------------------------------------------------------
(* Bounds of the model *)

\* at most this many files are in the input folder before the first run
MaxEntries == 2
\* the tool is invoked at most this many times in a row with the same options
MaxRuns == 2
\* decoded images have sides 1..MaxDim, or the largest u32
MaxDim == 2

----------------------------------------------------------------------------
(* Option<T> *)

None == <<>>
Some(x) == <<x>>
Unwrap(o) == o[1]

----------------------------------------------------------------------------
(* Strings *)

PNG == <<".", "p", "n", "g">>
JPG == <<".", "j", "p", "g">>
SLASH == <<"/">>

\* t occurs in s at index i
MatchAt(s, t, i) ==
    /\ i + Len(t) - 1 <= Len(s)
    /\ SubSeq(s, i, i + Len(t) - 1) = t

\* str::contains
Contains(s, t) == \E i \in 1..(Len(s) + 1) : MatchAt(s, t, i)

\* str::ends_with
EndsWith(s, t) ==
    /\ Len(t) <= Len(s)
    /\ SubSeq(s, Len(s) - Len(t) + 1, Len(s)) = t

\* str::replace for a non-empty needle: every non-overlapping match, found
\* left to right, is replaced
RECURSIVE ReplaceFrom(_, _, _, _)
ReplaceFrom(s, from, to, i) ==
    IF i > Len(s) THEN <<>>
    ELSE IF MatchAt(s, from, i)
         THEN to \o ReplaceFrom(s, from, to, i + Len(from))
         ELSE <<s[i]>> \o ReplaceFrom(s, from, to, i + 1)

Replace(s, from, to) == ReplaceFrom(s, from, to, 1)

\* index of the last "/" of a path, 0 when there is none
RECURSIVE LastSlash(_, _)
LastSlash(p, i) ==
    IF i = 0 THEN 0
    ELSE IF p[i] = "/" THEN i ELSE LastSlash(p, i - 1)

\* the directory a path lives in; <<>> is the working directory
Parent(p) ==
    LET k == LastSlash(p, Len(p))
    IN  IF k = 0 THEN <<>> ELSE SubSeq(p, 1, k - 1)

Join(dir, name) == dir \o SLASH \o name

----------------------------------------------------------------------------
(* Files and options the model runs on *)

\* --pattern: the default, the empty one, and one that ends in an extension
DefaultPattern == <<"_", "t", "i", "n", "y">>

D == <<"d">>
ND == <<"x", "/", "d">>
O == <<"o">>

A_PNG == <<"a">> \o PNG
A_TINY_PNG == <<"a">> \o DefaultPattern \o PNG
B_JPG == <<"b">> \o JPG
C_GIF == <<"c", ".", "g", "i", "f">>
E_BAK == <<"e">> \o PNG \o <<"~">>
SUB == <<"s">>

\* names of regular files that may lie in the input folder before the first run
FileNames == {A_PNG, A_TINY_PNG, B_JPG, C_GIF, E_BAK}
\* names an input folder may hold: files, and one sub-directory
Names == FileNames \cup {SUB}
\* names given with --name
SingleNames == {A_PNG, C_GIF}

\* --pattern
ExtPattern == <<"x">> \o PNG
Patterns == {DefaultPattern, <<>>, ExtPattern}

\* --input-folder: a folder of the working directory, or a nested one
Folders == {D, ND}

\* --size
DefaultSize == 200
Sizes == {1, DefaultSize}

\* the largest integer TLC computes with, 2^31 - 1
IntMax == (2 ^ 30 - 1) + 2 ^ 30
\* sides of decoded images: small ones, and one so large that a wrapped
\* subtraction shows
Dims == (1..MaxDim) \cup {IntMax}

Opts ==
    [ name : {None} \cup {Some(Join(D, n)) : n \in SingleNames},
      input_folder : Folders,
      output_folder : {None, Some(O)},
      pattern : Patterns,
      size : Sizes,
      tinify_only : BOOLEAN ]

KindOf(name) == IF name = SUB THEN "dir" ELSE "orig"

\* a filesystem: the input folder with the given names in it (when it is
\* there), and the folder "o" (when it is there)
FileSystem(folder, there, names, oThere) ==
    LET inFolder == IF there
                    THEN [p \in {folder} |-> "dir"] @@
                         [p \in {Join(folder, n) : n \in names} |->
                              KindOf(SubSeq(p, Len(folder) + 2, Len(p)))]
                    ELSE <<>>
        o == IF oThere THEN [p \in {O} |-> "dir"] ELSE <<>>
    IN  inFolder @@ o

----------------------------------------------------------------------------
(* Events: the calls of the image library, of the remote compressor client *)
(* and of the filesystem that submit or change something. `log` holds the  *)
(* events of the latest step of main, in order.                            *)

Event(op, path, ok) == [op |-> op, path |-> path, ok |-> ok]

NoPad == [w |-> 0, h |-> 0, canvas_w |-> 0, canvas_h |-> 0, x |-> 0, y |-> 0, size |-> 0]
NoJob == [file |-> <<>>, out |-> <<>>, outcome |-> "none"]

----------------------------------------------------------------------------
(* fn convert_and_tinify *)

\* (a - b) / 2 on u32 as a release build computes it: the subtraction wraps
\* modulo 2^32 when b > a, and (2^32 - k) / 2 = 2^31 - (k + 1) / 2 for k >= 1
\* (written so that no intermediate value leaves TLC's integers)
HalfSub32(a, b) ==
    IF a >= b THEN (a - b) \div 2
    ELSE (IntMax - ((b - a + 1) \div 2)) + 1

MaxLengthWidth(width, height) == width

\* width.max(height)
MaxLength(width, height) == IF height > width THEN height ELSE width

\* the canvas and the offsets of the overlay, for a decoded image
Pad(width, height, new_size) ==
    LET max_length == MaxLength(width, height)
    IN  [ w |-> width, h |-> height,
          canvas_w |-> max_length, canvas_h |-> max_length,
          x |-> HalfSub32(max_length, width),
          y |-> HalfSub32(max_length, height),
          size |-> new_size ]

IsFile(fsys, p) == p \in DOMAIN fsys /\ fsys[p] # "dir"

\* image::open(..).expect(..) panics on a file that is missing, a directory
\* or not decodable; a decoded image has any sides of Dims
ConvertAndTinify(fsys, file, new_size) ==
    {[res |-> "panic", ev |-> <<Event("open", file, FALSE)>>, pad |-> NoPad]}
    \cup
    (IF IsFile(fsys, file)
     THEN {[res |-> "source",
            ev |-> <<Event("open", file, TRUE), Event("transform", file, TRUE),
                     Event("from_buffer", file, TRUE)>>,
            pad |-> Pad(w, h, new_size)] : w \in Dims, h \in Dims}
     ELSE {})

----------------------------------------------------------------------------
(* fn tinify *)

\* the output path: .replace(".png", pattern + ".png").replace(".jpg", ..)
OutputPath(file, output, pattern) ==
    LET base == IF output # None THEN Unwrap(output) ELSE file
    IN  Replace(Replace(base, PNG, pattern \o PNG), JPG, pattern \o JPG)

IsPng(output) == EndsWith(output, PNG)

AlreadyTinifiedSuffix(output, pattern) == EndsWith(output, pattern \o pattern)

\* output.contains(pattern + pattern)
AlreadyTinified(output, pattern) == Contains(output, pattern \o pattern)

\* Path::new(p).exists()
PathExists(fsys, p) == p \in DOMAIN fsys

OutputIsFile(fsys, output) == output \in DOMAIN fsys /\ fsys[output] # "dir"

OutputExistsNever(fsys, output) == FALSE

\* if Path::new(&output).exists() { .. return Ok(()) }
OutputExists(fsys, output) == PathExists(fsys, output)

DirExists(fsys, p) == p = <<>> \/ (p \in DOMAIN fsys /\ fsys[p] = "dir")

\* source.to_file(output): the compressed result is written when the source
\* could be read and the target can be created; the request or the write may
\* fail in any case
ToFile(fsys, readable, output) ==
    {[fs |-> fsys, ev |-> <<Event("to_file", output, FALSE)>>, outcome |-> "werr"]}
    \cup
    (IF /\ readable
        /\ DirExists(fsys, Parent(output))
        /\ ~DirExists(fsys, output)
     THEN {[fs |-> (output :> "tiny") @@ fsys,
            ev |-> <<Event("to_file", output, TRUE)>>,
            outcome |-> "written"]}
     ELSE {})

\* the outcomes of one call of tinify: the filesystem after it, the events
\* it caused, and how it ended
Tinify(fsys, file, output, pattern, convert_size) ==
    LET out == OutputPath(file, output, pattern)
        is_png == IsPng(out)
        Skip(why) == {[fs |-> fsys, ev |-> <<>>, outcome |-> why,
                       out |-> out, pad |-> NoPad]}
    IN  IF AlreadyTinified(out, pattern) THEN Skip("double")
        ELSE IF OutputExists(fsys, out) THEN Skip("exists")
        ELSE IF is_png /\ convert_size # None
        THEN UNION {
               IF c.res = "panic"
               THEN {[fs |-> fsys, ev |-> c.ev, outcome |-> "panic",
                      out |-> out, pad |-> NoPad]}
               ELSE {[fs |-> t.fs, ev |-> c.ev \o t.ev, outcome |-> t.outcome,
                      out |-> out, pad |-> c.pad] : t \in ToFile(fsys, TRUE, out)}
               : c \in ConvertAndTinify(fsys, file, Unwrap(convert_size)) }
        ELSE {[fs |-> t.fs, ev |-> <<Event("from_file", file, TRUE)>> \o t.ev,
               outcome |-> t.outcome, out |-> out, pad |-> NoPad]
                 : t \in ToFile(fsys, IsFile(fsys, file), out)}

----------------------------------------------------------------------------
(* fn main *)

ConvertSizeAlways(o) == Some(o.size)

\* let size = if opts.tinify_only { None } else { Some(opts.size) }
ConvertSize(o) == IF o.tinify_only THEN None ELSE Some(o.size)

CreateDirAll(fsys, p) ==
    [fs |-> (p :> "dir") @@ (IF Parent(p) = <<>> THEN <<>> ELSE (Parent(p) :> "dir")) @@ fsys,
     ok |-> TRUE]

\* fs::create_dir(p): fails when the parent directory is missing
CreateDir(fsys, p) ==
    IF DirExists(fsys, Parent(p)) /\ p \notin DOMAIN fsys
    THEN [fs |-> (p :> "dir") @@ fsys, ok |-> TRUE]
    ELSE [fs |-> fsys, ok |-> FALSE]

\* fs::read_dir(p): the paths of the entries of p
ReadDir(fsys, p) == {q \in DOMAIN fsys : q # <<>> /\ Parent(q) = p}

IgnoreError(outcome, rest) == IF rest = {} THEN "done" ELSE "loop"

\* the `?` after a call of tinify, and the end of the loop
Propagate(outcome, rest) ==
    IF outcome = "panic" THEN "panic"
    ELSE IF outcome = "werr" THEN "err"
    ELSE IF rest = {} THEN "done" ELSE "loop"

Terminal == {"done", "err", "panic"}

\* The input folder is missing, or there with at most MaxEntries entries; the
\* nested folder is missing, with or without its parent. The folder "o"
\* matters only as --output-folder. With the pattern that ends in an
\* extension every run adds files, so it starts from at most one entry.
Init ==
    /\ opts \in Opts
    /\ opts.name # None => opts.input_folder = D
    /\ \/ /\ opts.input_folder = D
          /\ \E there \in BOOLEAN, names \in SUBSET Names :
               /\ Cardinality(names) <= MaxEntries
               /\ ~there => names = {}
               /\ opts.pattern = ExtPattern => Cardinality(names) <= 1
               /\ \E oThere \in BOOLEAN :
                    /\ oThere => opts.output_folder # None
                    /\ fs = FileSystem(D, there, names, oThere)
       \/ /\ opts.input_folder = ND
          /\ opts.output_folder = None
          /\ \E parentThere \in BOOLEAN :
               fs = FileSystem(Parent(ND), parentThere, {}, FALSE)
    /\ pc = "start"
    /\ todo = {}
    /\ log = <<>>
    /\ job = NoJob
    /\ njobs = 0
    /\ run = 1
    /\ exits = <<>>
    /\ pad = NoPad

\* one call of tinify from main
Call(file, output, rest) ==
    \E r \in Tinify(fs, file, output, opts.pattern, ConvertSize(opts)) :
        /\ fs' = r.fs
        /\ log' = r.ev
        /\ job' = [file |-> file, out |-> r.out, outcome |-> r.outcome]
        /\ njobs' = njobs + 1
        /\ pad' = r.pad
        /\ pc' = Propagate(r.outcome, rest)
        /\ todo' = rest

\* single image: tinify(name, None, &opts.pattern, size)?
StartSingle ==
    /\ pc = "start"
    /\ opts.name # None
    /\ Call(Unwrap(opts.name), None, {})
    /\ UNCHANGED <<opts, run, exits>>

\* folder: create it when it is missing, then list it
StartDir ==
    /\ pc = "start"
    /\ opts.name = None
    /\ LET missing == ~PathExists(fs, opts.input_folder)
           c == IF missing THEN CreateDir(fs, opts.input_folder)
                ELSE [fs |-> fs, ok |-> TRUE]
           entries == ReadDir(c.fs, opts.input_folder)
       IN  /\ fs' = c.fs
           /\ log' = IF missing
                     THEN <<Event("create_dir", opts.input_folder, c.ok)>>
                     ELSE <<>>
           /\ IF c.ok /\ DirExists(c.fs, opts.input_folder)
              THEN /\ todo' = entries
                   /\ pc' = IF entries = {} THEN "done" ELSE "loop"
              ELSE /\ todo' = {}
                   /\ pc' = "err"
    /\ UNCHANGED <<opts, job, njobs, run, exits, pad>>

\* one iteration of the loop over the entries. read_dir yields them in no
\* order the program relies on, so the next entry is any of those left.
Iterate ==
    /\ pc = "loop"
    /\ \E entry \in todo : Call(entry, opts.output_folder, todo \ {entry})
    /\ UNCHANGED <<opts, run, exits>>

\* the tool is invoked again with the same options
Rerun ==
    /\ pc \in Terminal
    /\ run < MaxRuns
    /\ run' = run + 1
    /\ exits' = Append(exits, pc)
    /\ pc' = "start"
    /\ log' = <<>>
    /\ job' = NoJob
    /\ njobs' = 0
    /\ pad' = NoPad
    /\ todo' = {}
    /\ UNCHANGED <<opts, fs>>

Next == StartSingle \/ StartDir \/ Iterate \/ Rerun

Spec == Init /\ [][Next]_vars

----------------------------------------------------------------------------
(* Properties *)

DirMode == opts.name = None

\* the step is one call of tinify
JobStep == njobs' = njobs + 1

\* the Output Path of a job, derived from the options it ran under
JobOutput(j) ==
    OutputPath(j.file, IF DirMode THEN opts.output_folder ELSE None, opts.pattern)

SubmitOps == {"open", "transform", "from_buffer", "from_file", "to_file"}

\* C1: a job whose derived Output Path exists when tinify runs returns
\* success, calls neither the remote compressor nor the image transform, and
\* leaves the filesystem as it was.
C1_ExistingOutputIsNoOp ==
    [][(JobStep /\ JobOutput(job') \in DOMAIN fs)
         => /\ fs' = fs
            /\ log' = <<>>
            /\ pc' \in {"loop", "done"}]_vars

C1_Witness ==
    /\ job.outcome = "exists"
    /\ job.out # job.file
    /\ job.out \in DOMAIN fs
    /\ pc \in {"loop", "done"}

\* C2: a job whose derived Output Path contains the pattern twice in direct
\* succession returns success without any call of the remote compressor and
\* without writing a file, whether or not the Output Path exists.
C2_DoubledPatternIsSkipped ==
    [][(JobStep /\ Contains(JobOutput(job'), opts.pattern \o opts.pattern))
         => /\ fs' = fs
            /\ log' = <<>>
            /\ pc' \in {"loop", "done"}]_vars

C2_Witness ==
    /\ job.outcome = "double"
    /\ opts.pattern # <<>>
    /\ job.out \notin DOMAIN fs
    /\ pc \in {"loop", "done"}

\* C3: after a first run over a folder has completed, a second run over the
\* same folder with the same options writes nothing and calls nothing.
C3_SecondRunIsNoOp ==
    [][(DirMode /\ run = 2 /\ exits = <<"done">>)
         => (fs' = fs /\ log' = <<>>)]_vars

\* the source path with the pattern inserted once before a .png or .jpg
\* extension, and unchanged without one
InsertBeforeExtension(file, pattern) ==
    IF EndsWith(file, PNG)
    THEN SubSeq(file, 1, Len(file) - Len(PNG)) \o pattern \o PNG
    ELSE IF EndsWith(file, JPG)
    THEN SubSeq(file, 1, Len(file) - Len(JPG)) \o pattern \o JPG
    ELSE file

\* C4: the Output Path of a job run without an output override is the source
\* path with the pattern inserted once before its .png or .jpg extension, and
\* the source path itself when it has neither extension.
C4_OutputPathByExtension ==
    (job.outcome # "none" /\ (~DirMode \/ opts.output_folder = None))
        => job.out = InsertBeforeExtension(job.file, opts.pattern)

FileName(p) == SubSeq(p, LastSlash(p, Len(p)) + 1, Len(p))

\* C5: in directory mode with an output folder, an entry's result is written
\* inside that folder, under the entry's name with the pattern inserted
\* before its extension.
C5_OutputsInsideOutputFolder ==
    (DirMode /\ opts.output_folder # None /\ job.outcome = "written")
        => job.out = Join(Unwrap(opts.output_folder),
                          InsertBeforeExtension(FileName(job.file), opts.pattern))

BootstrapStep == pc = "start" /\ DirMode /\ opts.input_folder \notin DOMAIN fs

Bootstrapped ==
    /\ pc' = "done"
    /\ fs' = (opts.input_folder :> "dir") @@ fs
    /\ log' = <<Event("create_dir", opts.input_folder, TRUE)>>
    /\ njobs' = 0
    /\ todo' = {}

\* C6 as claimed: when the input folder is missing, a directory run creates
\* it empty, runs no job and ends in success.
C6_BootstrapSucceeds == [][BootstrapStep => Bootstrapped]_vars

\* C6 as amended: so it does when the parent of the input folder exists;
\* when the parent is missing too, the folder is not created and the run ends
\* in an error, with no job run and nothing changed.
C6_BootstrapWhenParentExists ==
    [][BootstrapStep =>
         IF DirExists(fs, Parent(opts.input_folder))
         THEN Bootstrapped
         ELSE /\ pc' = "err"
              /\ fs' = fs
              /\ log' = <<Event("create_dir", opts.input_folder, FALSE)>>
              /\ njobs' = 0
              /\ todo' = {}]_vars

C6_Witness ==
    /\ pc = "done"
    /\ DirMode
    /\ log = <<Event("create_dir", opts.input_folder, TRUE)>>
    /\ ReadDir(fs, opts.input_folder) = {}
    /\ njobs = 0

\* C7: with the tinify-only flag set, whatever the size, no job opens or
\* transforms an image or submits a buffer, and every job that is not
\* skipped submits its source path to the remote compressor.
C7_TinifyOnlyNeverTransforms ==
    opts.tinify_only =>
        /\ \A i \in 1..Len(log) : log[i].op \notin {"open", "transform", "from_buffer"}
        /\ pad = NoPad
        /\ job.outcome \in {"written", "werr", "panic"}
             => (log # <<>> /\ log[1] = Event("from_file", job.file, TRUE))

C7_Witness ==
    /\ opts.tinify_only
    /\ opts.size = DefaultSize
    /\ job.outcome = "written"
    /\ IsPng(job.out)

Failed(l) == \E i \in 1..Len(l) : l[i].op \in SubmitOps /\ ~l[i].ok

\* C8: in directory mode a job that fails ends the run in an error exit, and
\* from then on the run processes no entry: no call, no write, no retry
\* (the only step left is a new invocation of the tool).
C8_AbortOnFirstFailure ==
    [][/\ (DirMode /\ JobStep /\ Failed(log')) => pc' \in {"err", "panic"}
       /\ (DirMode /\ pc \in {"err", "panic"})
            => (fs' = fs /\ log' = <<>> /\ njobs' = 0 /\ run' = run + 1)]_vars

C8_Witness ==
    /\ DirMode
    /\ pc = "err"
    /\ job.outcome = "werr"
    /\ todo # {}
    /\ \E e \in todo : JobOutput([file |-> e]) \notin DOMAIN fs

\* C9: the canvas of the image transform is square with side max(w, h), the
\* image is laid over it at ((max - w) / 2, (max - h) / 2), rounded down,
\* neither subtraction underflows, and the image lies inside the canvas.
C9_SquarePadding ==
    pad # NoPad =>
        LET m == IF pad.w >= pad.h THEN pad.w ELSE pad.h
        IN  /\ pad.w <= pad.canvas_w
            /\ pad.h <= pad.canvas_h
            /\ pad.canvas_w = m
            /\ pad.canvas_h = m
            /\ pad.x = (m - pad.w) \div 2
            /\ pad.y = (m - pad.h) \div 2
            /\ pad.x <= m - pad.w
            /\ pad.y <= m - pad.h

C9_Witness ==
    /\ pad # NoPad
    /\ pad.w = 1
    /\ pad.h = 2
    /\ pad.x = 0
    /\ pad.y = 0

\* the step processes an existing entry without .png and .jpg in its path,
\* in directory mode without an output folder
PlainEntryStep ==
    /\ pc = "loop"
    /\ JobStep
    /\ DirMode
    /\ opts.output_folder = None
    /\ job'.file \in DOMAIN fs
    /\ ~Contains(job'.file, PNG)
    /\ ~Contains(job'.file, JPG)

Untouched ==
    /\ fs' = fs
    /\ log' = <<>>
    /\ todo' = todo \ {job'.file}
    /\ pc' = IF todo' = {} THEN "done" ELSE "loop"

====
